---- MODULE Spec2Model ----
(***************************************************************************)
(* The bot-message mailbox of the voice-chat front end.                    *)
(*                                                                         *)
(*   messageStore          src/lib/messageStore.ts     (the shared Map)    *)
(*   POST /api/bot-message src/unnamed/part_000        (Deposit)           *)
(*   GET  /api/bot-message/[threadId]                                      *)
(*                         src/unnamed/part_001        (TryTake)           *)
(*   the setTimeout callback of POST                   (Evict)             *)
(*                                                                         *)
(* The handlers run on one JavaScript event loop.  Each handler suspends   *)
(* once, at its first `await` (request.json() / params), and the rest of   *)
(* its body runs to completion without yielding; so a request is modelled  *)
(* by an arrival step that puts it in `pending` and a second step that     *)
(* runs the rest of the handler atomically.  Pending requests resume in    *)
(* any order.                                                              *)
(*                                                                         *)
(* Time is counted in the spec's units (1 unit = 1000 ms).  A timer        *)
(* callback runs in the unit in which it falls due: the clock does not     *)
(* pass a due timer, but handlers that are ready in the same unit may run  *)
(* before or after it.                                                     *)
(*                                                                         *)
(* `writer`, `deposits` and `reply` are history variables: which Deposit    *)
(* wrote the Entry a key holds, what became of every Deposit, and what the *)
(* handler that ran last answered.  No handler reads them.                 *)
(*                                                                         *)
(* The four handlers that call an external provider share no state with    *)
(* the mailbox; `proxy` holds one request of each, and ProxySpec runs      *)
(* them:                                                                   *)
(*   POST /api/transcribe          src/lib/messageStore.ts:11-42           *)
(*   POST /api/speak               src/unnamed/part_002                    *)
(*   POST /api/message/send        src/app/api/message/send/route.ts       *)
(*   POST /api/conversation/start  src/app/api/conversation/start/route.ts *)
(***************************************************************************)
EXTENDS Integers, Sequences, FiniteSets

VARIABLES now, messageStore, timers, pending, arrived, writer, deposits, reply,
          proxy, client, agent, recorder

mailbox == <<now, messageStore, timers, pending, arrived, writer, deposits,
             reply>>

ui == <<agent, recorder>>

vars == <<mailbox, proxy, client, ui>>

(* ---- bounds ---------------------------------------------------------- *)
MaxRequests == 3    \* requests that arrive in one behaviour
MaxPending  == 2    \* requests in flight at the same time
MaxTime     == 31   \* no request arrives after this time
MaxReplies  == 2    \* replies that the bot posts to one conversation
MaxRecordings == 3  \* recordings that the user starts
MaxChunks   == 3    \* audio chunks that the voice agent sends
MaxSockets  == 2    \* calls of connect() that get the microphone

(* ---- program constants ----------------------------------------------- *)
EvictDelay == 30    \* setTimeout(..., 30000): 30000 ms = 30 units

(* The clock advances by half the delay, or to the next due timer if that  *)
(* comes first: a second Deposit can fall inside or outside the window of  *)
(* the first.                                                              *)
TickStep == EvictDelay \div 2

(* ---- inputs ---------------------------------------------------------- *)
Keys     == {"k1", "k2"}
Payloads == {"a", "b"}
Falsy    == ""      \* a missing or empty field of the request body


(* a request body that is not JSON: `await request.json()` throws          *)
Malformed == "not json"

(* the bodies that the bot posts: the well-formed {threadId, message},     *)
(* one of each way of leaving a field out, and one that does not parse     *)
Bodies   == (Keys \X Payloads)
              \cup {<<Falsy, "a">>, <<"k1", Falsy>>, <<Falsy, Falsy>>}
              \cup {<<Malformed, Malformed>>}

(* Map.get of a key the Map does not hold: undefined                       *)
NoEntry  == [message |-> "", timestamp |-> -1, consumed |-> FALSE]

(* the body {message: null} of the 404 answer                              *)
NoMessage == "null"

IsEntry(e) == e.timestamp >= 0

(* type StoredMessage                                                      *)
StoredMessage(message, timestamp, consumed) ==
    [message |-> message, timestamp |-> timestamp, consumed |-> consumed]

(* new Date().toISOString(): the current time, to the millisecond, as a    *)
(* string; the model keeps the time itself, of which the string is an      *)
(* injective rendering.                                                    *)
toISOString(t) == t

(* ---- requests in flight ---------------------------------------------- *)
(* `pending` lists the suspended handlers, oldest arrival first.           *)
Request(kind, threadId, message, raced) ==
    [kind |-> kind, threadId |-> threadId, message |-> message,
     raced |-> raced]

Max(S) == CHOOSE x \in S : \A y \in S : x >= y
Min(S) == CHOOSE x \in S : \A y \in S : x <= y

(* history: the requests of the same kind for the same key that are in     *)
(* flight together                                                         *)
Racing(kind, threadId) ==
    {i \in 1..Len(pending) :
        pending[i].kind = kind /\ pending[i].threadId = threadId}

(* A request arrives; its handler runs up to its first await.              *)
Arrive(kind, threadId, message) ==
    /\ now <= MaxTime
    /\ arrived < MaxRequests
    /\ Len(pending) < MaxPending
    /\ arrived' = arrived + 1
    /\ pending' =
          Append([i \in 1..Len(pending) |->
                     IF i \in Racing(kind, threadId)
                     THEN [pending[i] EXCEPT !.raced = TRUE]
                     ELSE pending[i]],
                 Request(kind, threadId, message,
                         Racing(kind, threadId) # {}))

(* The handler at position i resumes and leaves the list.                  *)
Resume(i) ==
    [j \in 1..(Len(pending) - 1) |->
        IF j < i THEN pending[j] ELSE pending[j + 1]]

(* ---- history --------------------------------------------------------- *)
(* What the handler that ran last answered (for kind "Evict": what the     *)
(* timer callback removed); src is the index in `deposits` of the Deposit  *)
(* whose Entry it concerns.                                                *)
Response(kind, key, status, message, timestamp, src, raced) ==
    [kind |-> kind, key |-> key, status |-> status, message |-> message,
     timestamp |-> timestamp, src |-> src, raced |-> raced, timer |-> 0]

NoReply == Response("none", "", 0, "", -1, 0, FALSE)

(* The Deposits in the order in which they wrote, each with the number of  *)
(* GETs that polled its key since and of those that received its payload.  *)
DepositRecord(r, overtook) ==
    [key |-> r.threadId, message |-> r.message, at |-> now,
     overtook |-> overtook, polls |-> 0, takes |-> 0, fate |-> "live"]

DepositsOn(k) == {d \in 1..Len(deposits) : deposits[d].key = k}

LastDeposit(k) == IF DepositsOn(k) = {} THEN 0 ELSE Max(DepositsOn(k))

(* ---- the provider proxies: their requests ---------------------------- *)
Handlers == {"transcribe", "speak", "send", "start"}

(* What the caller sends: a body the handler can use, one without the      *)
(* field it needs (text, audio), or one that request.json() or             *)
(* request.formData() rejects.                                             *)
ProxyBodies == {"ok", "empty", "malformed"}

(* What the provider does with the one fetch: the fetch rejects (no        *)
(* connection), or it resolves with a response of some status and body.    *)
(* No handler reads the status.  The bodies, by what line 35 of            *)
(* src/lib/messageStore.ts makes of them:                                  *)
(*   "shaped"   JSON with results.channels[0].alternatives[0].transcript   *)
(*   "object"   a JSON object on which the optional chain stops short:     *)
(*              no `results` ({"err_code": ...}, {}), or channels: []      *)
(*   "partial"  a JSON object on which an index is taken of undefined:     *)
(*              {"results": {}}, or a channel without alternatives         *)
(*   "null"     the JSON value null                                        *)
(*   "text"     not JSON: an HTML error page, an empty body                *)
(*   "broken"   the connection fails while the body is read: the promise   *)
(*              of response.json() or response.arrayBuffer() rejects       *)
Statuses  == {"ok", "error"}
BodyKinds == {"shaped", "object", "partial", "null", "text", "broken"}

Network    == [status |-> "network", body |-> "none"]
NoProvider == [status |-> "none", body |-> "none"]

Outcomes == [status : Statuses, body : BodyKinds] \cup {Network}

Failures == {o \in Outcomes : o.status # "ok"}

ProxyIdle == [pc |-> "idle", body |-> "ok", env |-> TRUE,
              provider |-> NoProvider, calls |-> 0, status |-> 0]


(* ---- the polling pages: their state ----------------------------------- *)
(* The chat page (src/app/page.tsx:6-640) and the page that                *)
(* src/setup-voice-chat.sh writes (lines 40-262) poll the mailbox for the  *)
(* thread of the conversation.  `page` says which of the two is open;      *)
(* threadId and isSpeaking are the React state; nextPoll is when the interval set by the *)
(* polling effect fires next; inbox holds the answers on their way to the  *)
(* page; playing holds the messages whose speakText has started and not    *)
(* ended.  shown and dropped are history: the Deposits whose message was   *)
(* appended to the message list, and those whose message the page          *)
(* received and discarded.                                                 *)
NoClient == [page |-> "none", threadId |-> Falsy, isSpeaking |-> FALSE,
             nextPoll |-> 0,
             inbox |-> <<>>, playing |-> {}, shown |-> {}, dropped |-> {}]

(* ---- the recorder of the chat page: its state ------------------------- *)
(* src/app/page.tsx:132-186.  stream: streamRef.current is set; state: the *)
(* state of mediaRecorderRef.current; timeoutRef: recordingTimeoutRef, the *)
(* handle of the timer set last (0: null); timers: the auto-stop timers    *)
(* that are pending, each named by the recording that set it.  started     *)
(* (the number of recordings started, so the name of the latest) and       *)
(* lastAuto (what the auto-stop callback that ran last stopped) are        *)
(* history.                                                                *)
NoRecorder == [stream |-> FALSE, isListening |-> FALSE, state |-> "none",
               timeoutRef |-> 0, timers |-> {}, started |-> 0,
               lastAuto |-> [timer |-> 0, stopped |-> 0]]

(* ---- the voice-agent page: its state ---------------------------------- *)
(* src/app/page.tsx:1262-1524.  showConfig, isConnected, isListening: the  *)
(* React state.  waiting: the calls of connect() that await getUserMedia,  *)
(* each with the isListening of the render it was called in (heard) and    *)
(* whether the apiKey of that render is one that new WebSocket takes as a  *)
(* subprotocol (token).  contexts: the AudioContexts made so far, in       *)
(* order, each "running" or "closed"; ctxRef: the one that                 *)
(* audioContextRef.current names, which is also the one of the stream that *)
(* mediaStreamRef.current names (0: null).  sockets: the websockets made   *)
(* so far, in order: the readyState (ws: "connecting", "open", "closing"   *)
(* or "closed"), the context made in the same call (context), and the      *)
(* isListening that the onaudioprocess handler of that call closed over    *)
(* (heard).  wsRef: the socket that wsRef.current names (0: null).         *)
(* audioQueue: audioQueueRef.current; playing: the chunks whose source has *)
(* started and not ended, each with the context it plays in.  chunks (the  *)
(* number of chunks received) and buffer (what became of the microphone    *)
(* buffer captured last) are history.                                      *)
NoBuffer == [captured |-> FALSE, open |-> FALSE, listening |-> FALSE,
             sent |-> FALSE]

NoAgent == [showConfig |-> TRUE, isConnected |-> FALSE,
            isListening |-> FALSE, waiting |-> <<>>, contexts |-> <<>>,
            ctxRef |-> 0, sockets |-> <<>>, wsRef |-> 0, audioQueue |-> <<>>, playing |-> {}, chunks |-> 0,
            buffer |-> NoBuffer]

(* export const messageStore = new Map<string, StoredMessage>()            *)
Init ==
    /\ now = 0
    /\ messageStore = [k \in Keys |-> NoEntry]
    /\ timers = {}
    /\ pending = <<>>
    /\ arrived = 0
    /\ writer = [k \in Keys |-> 0]
    /\ deposits = <<>>
    /\ reply = NoReply
    /\ proxy = [h \in Handlers |-> ProxyIdle]
    /\ client = NoClient
    /\ agent = NoAgent
    /\ recorder = NoRecorder

(* ---- POST /api/bot-message ------------------------------------------- *)
(* The request arrives and the handler suspends at `await request.json()`. *)
POSTArrive(threadId, message) ==
    /\ Arrive("POST", threadId, message)
    /\ UNCHANGED <<now, messageStore, timers, writer, deposits, reply, proxy,
                   client, ui>>

(* A Deposit that keeps an Entry the key already holds (a queue of one     *)
(* that refuses the second message) instead of replacing it.               *)
DepositKeepFirst(store, threadId, message) ==
    IF IsEntry(store[threadId])
    THEN store
    ELSE [store EXCEPT ![threadId] =
             StoredMessage(message, toISOString(now), FALSE)]

(* A Deposit that updates the Entry in place and so keeps its consumed     *)
(* flag: Object.assign(stored, {message, timestamp})                       *)
DepositKeepConsumed(store, threadId, message) ==
    [store EXCEPT ![threadId] =
        StoredMessage(message, toISOString(now), store[threadId].consumed)]

(* messageStore.set(threadId, {message, timestamp, consumed: false})       *)
Deposit(store, threadId, message) ==
    [store EXCEPT ![threadId] =
        StoredMessage(message, toISOString(now), FALSE)]

(* A POST that cancels the timers already pending for its key before it    *)
(* sets its own: clearTimeout, then setTimeout                             *)
ScheduleReplacing(ts, threadId, id) ==
    {t \in ts : t.key # threadId}
        \cup {[key |-> threadId, due |-> now + EvictDelay, id |-> id]}

(* A POST that sets no timer.                                              *)
ScheduleNothing(ts, threadId, id) == ts

(* setTimeout(() => messageStore.delete(threadId), 30000)                  *)
Schedule(ts, threadId, id) ==
    ts \cup {[key |-> threadId, due |-> now + EvictDelay, id |-> id]}

(* history: the Entry that the key holds, if any, meets its fate           *)
Gone(ds, k, fate) ==
    [d \in 1..Len(ds) |->
        IF d = writer[k] THEN [ds[d] EXCEPT !.fate = fate] ELSE ds[d]]

(* The test that lets an empty message through: if (!threadId)            *)
InvalidThreadOnly(r) == r.threadId = Falsy

(* if (!threadId || !message)                                              *)
Invalid(r) == r.threadId = Falsy \/ r.message = Falsy

(* The body of the handler after the await; a body that does not parse     *)
(* makes the await throw, and the catch answers 500.                       *)
POST(i) ==
    /\ pending[i].kind = "POST"
    /\ pending' = Resume(i)
    /\ LET r == pending[i] IN
       IF r.threadId = Malformed
       THEN /\ reply' = Response("POST", Falsy, 500, Falsy, -1, 0, r.raced)
            /\ UNCHANGED <<messageStore, timers, writer, deposits>>
       ELSE IF Invalid(r)
       THEN /\ reply' = Response("POST", r.threadId, 400, r.message, -1, 0,
                                 r.raced)
            /\ UNCHANGED <<messageStore, timers, writer, deposits>>
       ELSE /\ messageStore' = Deposit(messageStore, r.threadId, r.message)
            /\ timers' = Schedule(timers, r.threadId, Len(deposits) + 1)
            /\ writer' = [writer EXCEPT ![r.threadId] = Len(deposits) + 1]
            /\ deposits' = Append(Gone(deposits, r.threadId, "overwritten"),
                                  DepositRecord(r,
                                     \E j \in Racing("POST", r.threadId) :
                                        j < i))
            /\ reply' = Response("POST", r.threadId, 200, r.message,
                                 toISOString(now), Len(deposits) + 1, r.raced)
    /\ UNCHANGED <<now, arrived, proxy, client, ui>>

(* ---- GET /api/bot-message/[threadId] ---------------------------------- *)
(* The request arrives and the handler suspends at `await params`.         *)
GETArrive(threadId) ==
    /\ Arrive("GET", threadId, Falsy)
    /\ UNCHANGED <<now, messageStore, timers, writer, deposits, reply, proxy,
                   client, ui>>

(* The test without its second half: if (stored)                          *)
DeliverableIgnoringConsumed(stored) == IsEntry(stored)

(* The test without its first half: if (!stored.consumed)                  *)
DeliverableUnchecked(stored) == ~stored.consumed

(* if (stored && !stored.consumed)                                         *)
Deliverable(stored) == IsEntry(stored) /\ ~stored.consumed

(* A GET that forgets to mark the Entry.                                   *)
MarkConsumedNot(store, threadId) == store

(* A GET that removes the Entry it delivers: messageStore.delete(threadId) *)
MarkConsumedDelete(store, threadId) == [store EXCEPT ![threadId] = NoEntry]

(* stored.consumed = true                                                  *)
MarkConsumed(store, threadId) ==
    [store EXCEPT ![threadId].consumed = TRUE]

(* history: a GET polled key k, and took the payload of Deposit src        *)
(* (src = 0: it took none); the polls are counted up to MaxRequests        *)
Polled(ds, k, src) ==
    [d \in 1..Len(ds) |->
        [ds[d] EXCEPT !.polls = IF d = LastDeposit(k) /\ @ < MaxRequests
                                THEN @ + 1 ELSE @,
                      !.takes = IF d = src THEN @ + 1 ELSE @]]

(* The body of the handler after the await.                                *)
TryTake(i) ==
    /\ pending[i].kind = "GET"
    /\ pending' = Resume(i)
    /\ LET r == pending[i]
           stored == messageStore[r.threadId]
       IN
       IF Deliverable(stored)
       THEN /\ messageStore' = MarkConsumed(messageStore, r.threadId)
            /\ deposits' = Polled(deposits, r.threadId, writer[r.threadId])
            /\ reply' = Response("GET", r.threadId, 200, stored.message,
                                 stored.timestamp, writer[r.threadId], r.raced)
       ELSE /\ deposits' = Polled(deposits, r.threadId, 0)
            /\ reply' = Response("GET", r.threadId, 404, NoMessage, -1, 0,
                                 r.raced)
            /\ UNCHANGED messageStore
    /\ UNCHANGED <<now, timers, arrived, writer>>

(* A GET sent by some caller other than the pages below.                   *)
GET(i) == TryTake(i) /\ UNCHANGED <<proxy, client, ui>>

(* ---- the eviction timer ---------------------------------------------- *)
(* A timer callback that removes nothing.                                  *)
DeleteNothing(store, threadId) == store

(* A timer callback that empties the Map: messageStore.clear()             *)
DeleteAll(store, threadId) == [k \in Keys |-> NoEntry]

(* A timer callback that spares an Entry that was not consumed.            *)
DeleteConsumed(store, threadId) ==
    IF store[threadId].consumed
    THEN [store EXCEPT ![threadId] = NoEntry]
    ELSE store

(* messageStore.delete(threadId)                                           *)
Delete(store, threadId) == [store EXCEPT ![threadId] = NoEntry]

(* The callback passed to setTimeout; t.id names the Deposit that set it.  *)
Evict(t) ==
    /\ t \in timers
    /\ t.due <= now
    /\ timers' = timers \ {t}
    /\ messageStore' = Delete(messageStore, t.key)
    /\ writer' = [writer EXCEPT ![t.key] = 0]
    /\ deposits' = Gone(deposits, t.key, "evicted")
    /\ reply' = [Response("Evict", t.key, 0, messageStore[t.key].message,
                            messageStore[t.key].timestamp, writer[t.key],
                            FALSE) EXCEPT !.timer = t.id]
    /\ UNCHANGED <<now, pending, arrived, proxy, client, ui>>

(* ---- the clock ------------------------------------------------------- *)
Tick ==
    /\ \A t \in timers : t.due > now
    /\ now < MaxTime \/ timers # {}
    /\ now' = Min({now + TickStep} \cup {t.due : t \in timers})
    /\ UNCHANGED <<messageStore, timers, pending, arrived, writer, deposits,
                   reply, proxy, client, ui>>

Next ==
    \/ \E b \in Bodies : POSTArrive(b[1], b[2])
    \/ \E i \in 1..Len(pending) : POST(i)
    \/ \E k \in Keys : GETArrive(k)
    \/ \E i \in 1..Len(pending) : GET(i)
    \/ \E t \in timers : Evict(t)
    \/ Tick

Spec == Init /\ [][Next]_vars

(* ---- the provider proxies -------------------------------------------- *)
(* return NextResponse.json(..., {status})                                 *)
Answer(p, status) == [p EXCEPT !.pc = "done", !.status = status]

(* fetch(...): the one outbound request; the handler awaits it             *)
Fetch(p) == [p EXCEPT !.pc = "fetching", !.calls = @ + 1]

(* A catch that tries the provider once more before it gives up.           *)
RetryOnReject(p) ==
    IF p.calls < 2 THEN Fetch(p) ELSE Answer(p, 500)

(* catch (error) { return NextResponse.json({error}, {status: 500}) }      *)
OnReject(p) == Answer(p, 500)

(* src/lib/messageStore.ts:16-32: no audio 400, no key 500, else fetch     *)
TranscribeChecks(p) ==
    IF p.body = "empty" THEN Answer(p, 400)
    ELSE IF ~p.env THEN Answer(p, 500)
    ELSE Fetch(p)

(* src/unnamed/part_002:7-23: no text 400, no key 500, else fetch          *)
SpeakChecks(p) ==
    IF p.body = "empty" THEN Answer(p, 400)
    ELSE IF ~p.env THEN Answer(p, 500)
    ELSE Fetch(p)

(* message/send/route.ts:9-22: no webhook URL 500, else fetch              *)
SendChecks(p) ==
    IF ~p.env THEN Answer(p, 500) ELSE Fetch(p)

(* conversation/start/route.ts:9-23: no webhook URL: success, no fetch     *)
StartChecks(p) ==
    IF ~p.env THEN Answer(p, 200) ELSE Fetch(p)

(* A request arrives; the handler awaits request.json() / formData().      *)
ProxyArrive(h, body, env) ==
    /\ proxy[h].pc = "idle"
    /\ proxy' = [proxy EXCEPT ![h] =
                    [ProxyIdle EXCEPT !.pc = "parsing", !.body = body,
                                      !.env = env]]
    /\ UNCHANGED <<mailbox, client, ui>>

(* The body is parsed (a malformed one throws) and the handler runs up to  *)
(* its fetch.                                                              *)
ProxyParsed(h) ==
    /\ proxy[h].pc = "parsing"
    /\ proxy' = [proxy EXCEPT ![h] =
          IF @.body = "malformed" THEN OnReject(@)
          ELSE IF h = "transcribe" THEN TranscribeChecks(@)
          ELSE IF h = "speak" THEN SpeakChecks(@)
          ELSE IF h = "send" THEN SendChecks(@)
          ELSE StartChecks(@)]
    /\ UNCHANGED <<mailbox, client, ui>>

(* The fetch settles.  A rejected fetch throws into the catch; a response, *)
(* whatever its status, is not inspected: send and start answer success,   *)
(* transcribe and speak go on to read the response body.                   *)
ProxyFetched(h, outcome) ==
    /\ proxy[h].pc = "fetching"
    /\ proxy' = [proxy EXCEPT ![h] =
          IF outcome = Network THEN OnReject([@ EXCEPT !.provider = outcome])
          ELSE IF h \in {"send", "start"}
               THEN Answer([@ EXCEPT !.provider = outcome], 200)
               ELSE [@ EXCEPT !.provider = outcome, !.pc = "reading"]]
    /\ UNCHANGED <<mailbox, client, ui>>

(* The body arrives whole: the promise of the read resolves.               *)
ReadsBody(body) == body # "broken"

(* response.json() rejects on a body that does not arrive or is not JSON   *)
ParsesAsJSON(body) == ReadsBody(body) /\ body # "text"

(* result.results?.channels[0]?.alternatives[0]?.transcript throws a       *)
(* TypeError when it reads a property of null or an index of undefined     *)
ReadsTranscript(body) == body \in {"shaped", "object"}

(* src/lib/messageStore.ts:34-41: whatever the status, a body from which   *)
(* line 35 reads a transcript or undefined is answered 200 with            *)
(* {transcript: transcript || ''}; any other body throws into the catch.   *)
TranscribeRead(p) ==
    IF ParsesAsJSON(p.provider.body) /\ ReadsTranscript(p.provider.body)
    THEN Answer(p, 200)
    ELSE OnReject(p)

(* src/unnamed/part_002:25-36: the response body, whatever it is, is sent  *)
(* back as audio/mpeg with status 200; when response.arrayBuffer() rejects *)
(* the catch answers 500.                                                  *)
SpeakRead(p) ==
    IF ReadsBody(p.provider.body)
    THEN Answer(p, 200)
    ELSE OnReject(p)

(* The response body is read and the handler answers.                      *)
ProxyRead(h) ==
    /\ proxy[h].pc = "reading"
    /\ proxy' = [proxy EXCEPT ![h] =
          IF h = "transcribe" THEN TranscribeRead(@) ELSE SpeakRead(@)]
    /\ UNCHANGED <<mailbox, client, ui>>

ProxyNext ==
    \/ \E h \in Handlers, b \in ProxyBodies, e \in BOOLEAN :
          ProxyArrive(h, b, e)
    \/ \E h \in Handlers : ProxyParsed(h)
    \/ \E h \in Handlers, o \in Outcomes : ProxyFetched(h, o)
    \/ \E h \in Handlers : ProxyRead(h)

ProxySpec == Init /\ [][ProxyNext]_vars

(***************************************************************************)
(* The claims.  Deposit = the POST handler's body, TryTake = the GET       *)
(* handler's body, Evict = the timer callback.                             *)
(***************************************************************************)
Deposited == 1..Len(deposits)

Held(k) == writer[k] # 0

(* C1: over any interleaving of Deposit, TryTake and Evict steps on any    *)
(* keys, the payload stored by one Deposit is returned by at most one      *)
(* successful TryTake.                                                     *)
C1_AtMostOnce == \A d \in Deposited : deposits[d].takes <= 1

(* A Deposit whose key was polled twice and whose payload went out once.   *)
C1_Witness ==
    \E d \in Deposited : deposits[d].takes = 1 /\ deposits[d].polls >= 2

(* C2: after one Deposit, of the TryTakes for its key that run before any  *)
(* eviction of the key (two of them concurrently), exactly one returns     *)
(* the payload and the others not-found; the step that finds consumed      *)
(* false is the step that sets it, so no other handler runs in between.    *)
C2_ExactlyOne ==
    \A k \in Keys :
        Held(k) =>
            /\ deposits[writer[k]].polls >= 1 => deposits[writer[k]].takes = 1
            /\ deposits[writer[k]].polls = 0 => deposits[writer[k]].takes = 0
            /\ messageStore[k].consumed <=> deposits[writer[k]].takes = 1

C2_CheckAndSet ==
    \A i \in 1..Len(pending) :
        GET(i) =>
            LET k == pending[i].threadId IN
            /\ reply'.status = 200 <=>
                  (IsEntry(messageStore[k]) /\ ~messageStore[k].consumed)
            /\ reply'.status = 200 => messageStore'[k].consumed
            /\ reply'.status # 200 => reply'.status = 404

C2_Race == [] C2_ExactlyOne /\ [][C2_CheckAndSet]_vars

(* Two GETs for the key were in flight together after the Deposit; both    *)
(* have run, the Entry is still held, and the last one was refused.        *)
C2_Witness ==
    \E k \in Keys :
        /\ Held(k)
        /\ deposits[writer[k]].polls = 2
        /\ deposits[writer[k]].takes = 1
        /\ reply.kind = "GET" /\ reply.key = k
        /\ reply.raced /\ reply.status = 404

(* C3: Deposit(k, a), then Deposit(k, b), then TryTake(k), with no         *)
(* eviction of k in between: the TryTake returns b, b is returned once,    *)
(* and a is never returned: a successful TryTake returns the payload of    *)
(* the last Deposit for its key, and only if no TryTake returned it before.*)
C3_Step ==
    \A i \in 1..Len(pending) :
        GET(i) =>
            LET k == pending[i].threadId
                L == LastDeposit(k)
            IN
            /\ reply'.status = 200 =>
                  /\ L # 0
                  /\ reply'.src = L
                  /\ reply'.message = deposits[L].message
                  /\ deposits[L].takes = 0
                  /\ deposits'[L].takes = 1
            /\ ( /\ L # 0
                 /\ writer[k] = L
                 /\ deposits[L].polls = 0
                 /\ \E d \in DepositsOn(k) :
                        d < L /\ deposits[d].fate = "overwritten" )
               => reply'.status = 200

C3_Overwrite == [][C3_Step]_vars

(* b was taken after it replaced a, which no TryTake returned.             *)
C3_Witness ==
    \E k \in Keys :
        LET L == LastDeposit(k) IN
        /\ L # 0
        /\ reply.kind = "GET" /\ reply.key = k /\ reply.status = 200
        /\ reply.src = L /\ reply.message = "b"
        /\ deposits[L].polls = 1 /\ deposits[L].takes = 1
        /\ \E d \in DepositsOn(k) :
              /\ d < L
              /\ deposits[d].message = "a"
              /\ deposits[d].fate = "overwritten"
              /\ deposits[d].takes = 0

(* C4: a TryTake that follows a Deposit for the same key, with no other    *)
(* Deposit or TryTake for the key in between and before 30 units have      *)
(* passed since that Deposit, returns the deposited payload (a timer left  *)
(* pending by an earlier Deposit does not harm the newer Entry).           *)
C4_Step ==
    \A i \in 1..Len(pending) :
        GET(i) =>
            LET k == pending[i].threadId
                L == LastDeposit(k)
            IN
            ( /\ L # 0
              /\ deposits[L].polls = 0
              /\ now < deposits[L].at + EvictDelay )
            => /\ reply'.status = 200
               /\ reply'.message = deposits[L].message

C4_DepositThenTake == [][C4_Step]_vars

(* C5: the timer removes an Entry 30 units after that Entry's own          *)
(* createdAt, not timed from any other Deposit.                            *)
C5_Step ==
    \A t \in timers :
        (Evict(t) /\ IsEntry(messageStore[t.key]))
        => now = messageStore[t.key].timestamp + EvictDelay

C5_EvictedOnTime == [][C5_Step]_vars

(* C6: once more than 30 units have passed since the last Deposit for k,   *)
(* TryTake(k) returns not-found and changes nothing, so the payload is     *)
(* never returned later; and no TryTake returns the payload of a Deposit   *)
(* whose Entry was evicted.                                                *)
C6_Step ==
    \A i \in 1..Len(pending) :
        GET(i) =>
            LET k == pending[i].threadId
                L == LastDeposit(k)
            IN
            /\ (L # 0 /\ now > deposits[L].at + EvictDelay)
               => /\ reply'.status = 404
                  /\ reply'.message = NoMessage
                  /\ messageStore' = messageStore
            /\ \A d \in Deposited :
                  deposits[d].fate = "evicted"
                  => deposits'[d].takes = deposits[d].takes

C6_EvictedNotFound == [][C6_Step]_vars

(* x was deposited, never taken, evicted; a poll past the delay was        *)
(* answered not-found.                                                     *)
C6_Witness ==
    \E k \in Keys :
        LET L == LastDeposit(k) IN
        /\ L # 0
        /\ now > deposits[L].at + EvictDelay
        /\ deposits[L].fate = "evicted"
        /\ deposits[L].takes = 0 /\ deposits[L].polls = 1
        /\ reply.kind = "GET" /\ reply.key = k /\ reply.status = 404

(* C7: after a successful TryTake(k), every further TryTake(k) before a    *)
(* new Deposit(k) returns not-found, also while the Entry is still held;   *)
(* the consumed flag of an Entry, once true, stays true as long as the     *)
(* Entry is held.                                                          *)
C7_Step ==
    /\ \A i \in 1..Len(pending) :
          GET(i) =>
              LET k == pending[i].threadId
                  L == LastDeposit(k)
              IN
              (L # 0 /\ deposits[L].takes >= 1)
              => /\ reply'.status = 404
                 /\ messageStore' = messageStore
    /\ \A k \in Keys :
          (Held(k) /\ writer'[k] = writer[k] /\ messageStore[k].consumed)
          => messageStore'[k].consumed

C7_ConsumedOnce == [][C7_Step]_vars

(* The second TryTake was refused while the consumed Entry is still held.  *)
C7_Witness ==
    \E k \in Keys :
        /\ Held(k)
        /\ messageStore[k].consumed
        /\ deposits[writer[k]].takes = 1 /\ deposits[writer[k]].polls = 2
        /\ reply.kind = "GET" /\ reply.key = k /\ reply.status = 404
        /\ now < messageStore[k].timestamp + EvictDelay

(* C8: after two Deposits for the same key, in whichever order they        *)
(* arrived, the Entry holds the payload and timestamp of the Deposit that  *)
(* wrote last, and an overwritten Deposit's payload is never returned      *)
(* afterwards.                                                             *)
C8_LastWriter ==
    \A k \in Keys :
        Held(k) =>
            /\ writer[k] = LastDeposit(k)
            /\ messageStore[k].message = deposits[writer[k]].message
            /\ messageStore[k].timestamp = toISOString(deposits[writer[k]].at)

C8_Lost ==
    \A d \in Deposited :
        deposits[d].fate = "overwritten"
        => deposits'[d].takes = deposits[d].takes

C8_LastWriteWins == [] C8_LastWriter /\ [][C8_Lost]_vars

(* Two POSTs for k raced; the one that arrived second wrote first, was     *)
(* overwritten untaken by the other, whose payload the Entry now holds.    *)
C8_Witness ==
    \E k \in Keys :
        \E d \in DepositsOn(k) :
            /\ Held(k)
            /\ d < writer[k]
            /\ deposits[d].overtook
            /\ deposits[d].fate = "overwritten"
            /\ deposits[d].takes = 0
            /\ deposits[d].message # deposits[writer[k]].message
            /\ messageStore[k].message = deposits[writer[k]].message
            /\ ~deposits[writer[k]].overtook

(* C9: Deposit, TryTake and Evict on key k1 leave, for every other key     *)
(* k2, the Entry (presence, payload, timestamp, consumed) and the pending  *)
(* timers unchanged.                                                       *)
TimersOf(ts, k) == {t \in ts : t.key = k}

Untouched(k1) ==
    \A k2 \in Keys \ {k1} :
        /\ messageStore'[k2] = messageStore[k2]
        /\ TimersOf(timers', k2) = TimersOf(timers, k2)

C9_Step ==
    /\ \A i \in 1..Len(pending) :
          (POST(i) \/ GET(i)) => Untouched(pending[i].threadId)
    /\ \A t \in timers : Evict(t) => Untouched(t.key)

C9_KeyIsolation == [][C9_Step]_vars

(* A timer for one key has just fired while another key holds an Entry     *)
(* and has its own timer pending.                                          *)
C9_Witness ==
    \E k1 \in Keys :
        \E k2 \in Keys \ {k1} :
            /\ reply.kind = "Evict" /\ reply.key = k1
            /\ IsEntry(messageStore[k2])
            /\ TimersOf(timers, k2) # {}

(* C10: TryTake on a key with no Entry returns not-found, every time, and  *)
(* leaves the Map and the pending timers unchanged.                        *)
C10_Step ==
    \A i \in 1..Len(pending) :
        (GET(i) /\ ~IsEntry(messageStore[pending[i].threadId]))
        => /\ reply'.status = 404
           /\ reply'.message = NoMessage
           /\ messageStore' = messageStore
           /\ timers' = timers

C10_NotFoundIdempotent == [][C10_Step]_vars

(* A key that never had an Entry was polled by two GETs in flight          *)
(* together; the last answer was not-found, and nothing is stored.         *)
C10_Witness ==
    \E k \in Keys :
        /\ DepositsOn(k) = {}
        /\ reply.kind = "GET" /\ reply.key = k /\ reply.status = 404
        /\ reply.raced
        /\ Len(pending) = 0 /\ arrived >= 2
        /\ ~IsEntry(messageStore[k])

(* ---- the push-delivery handler's answers ----------------------------- *)
WellFormed(r) == r.threadId \in Keys /\ r.message \in Payloads

(* C11 as stated: the push-delivery handler answers every request body     *)
(* {threadId, message} with success, after calling Deposit; it never       *)
(* answers with an error.                                                  *)
C11_Step ==
    \A i \in 1..Len(pending) :
        (POST(i) /\ pending[i].threadId # Malformed)
        => /\ reply'.status = 200
           /\ Len(deposits') = Len(deposits) + 1

C11_AlwaysSuccess == [][C11_Step]_vars

(* C11 amended: a body whose threadId and message are both non-empty is    *)
(* deposited and answered with success; a body with a missing or empty     *)
(* threadId or message is answered 400 and one that does not parse 500,    *)
(* both without a Deposit.                                                 *)
C11_AmendedStep ==
    \A i \in 1..Len(pending) :
        POST(i) =>
            LET r == pending[i] IN
            /\ WellFormed(r) =>
                  /\ reply'.status = 200
                  /\ Len(deposits') = Len(deposits) + 1
                  /\ messageStore'[r.threadId].message = r.message
            /\ (r.threadId = Falsy \/ r.message = Falsy) =>
                  /\ reply'.status = 400
                  /\ UNCHANGED <<messageStore, timers, deposits>>
            /\ r.threadId = Malformed =>
                  /\ reply'.status = 500
                  /\ UNCHANGED <<messageStore, timers, deposits>>

C11_SuccessIffWellFormed == [][C11_AmendedStep]_vars

(* A body without a message was refused while its key holds the Entry of   *)
(* an earlier, accepted body.                                              *)
C11_Witness ==
    /\ reply.kind = "POST" /\ reply.status = 400
    /\ reply.key = "k1" /\ reply.message = Falsy
    /\ Held("k1")
    /\ deposits[writer["k1"]].fate = "live"

(* C12: after Deposit(k, p) the Map holds for k exactly the Entry with     *)
(* payload p, consumed = false and the timestamp of this Deposit, whatever *)
(* Entry was there before, and exactly one new timer for k, due 30 units   *)
(* later, has been scheduled; the timers already pending stay.             *)
C12_Step ==
    \A i \in 1..Len(pending) :
        (POST(i) /\ WellFormed(pending[i])) =>
            LET r == pending[i] IN
            /\ messageStore'[r.threadId] =
                  [message |-> r.message, timestamp |-> now,
                   consumed |-> FALSE]
            /\ timers \subseteq timers'
            /\ Cardinality(timers' \ timers) = 1
            /\ \A t \in timers' \ timers :
                  t.key = r.threadId /\ t.due = now + EvictDelay

C12_DepositEffect == [][C12_Step]_vars

(* A Deposit has just replaced an Entry that a TryTake had consumed.       *)
C12_Witness ==
    \E k \in Keys :
        /\ reply.kind = "POST" /\ reply.status = 200 /\ reply.key = k
        /\ reply.src = writer[k]
        /\ ~messageStore[k].consumed
        /\ Cardinality(TimersOf(timers, k)) = 2
        /\ \E d \in DepositsOn(k) :
              /\ d < writer[k]
              /\ deposits[d].fate = "overwritten"
              /\ deposits[d].takes = 1

(* C13: a TryTake(k) succeeds exactly when the Map holds an Entry for k    *)
(* whose consumed flag is false; it then returns the payload and the       *)
(* timestamp that the most recent Deposit for k wrote; in every other      *)
(* case the handler answers not-found with no payload.                     *)
C13_Step ==
    \A i \in 1..Len(pending) :
        GET(i) =>
            LET k == pending[i].threadId
                stored == messageStore[k]
                L == LastDeposit(k)
            IN
            IF IsEntry(stored) /\ ~stored.consumed
            THEN /\ reply'.status = 200
                 /\ reply'.message = stored.message
                 /\ reply'.timestamp = stored.timestamp
                 /\ L # 0
                 /\ reply'.message = deposits[L].message
                 /\ reply'.timestamp = toISOString(deposits[L].at)
            ELSE /\ reply'.status = 404
                 /\ reply'.message = NoMessage
                 /\ reply'.timestamp = -1

C13_TakeResult == [][C13_Step]_vars

(* A TryTake returned the payload and timestamp of the second Deposit for  *)
(* its key, some time after that Deposit.                                  *)
C13_Witness ==
    \E k \in Keys :
        LET L == LastDeposit(k) IN
        /\ L # 0
        /\ reply.kind = "GET" /\ reply.key = k /\ reply.status = 200
        /\ reply.message = deposits[L].message
        /\ reply.timestamp = deposits[L].at
        /\ reply.timestamp > 0 /\ reply.timestamp < now
        /\ Cardinality(DepositsOn(k)) = 2

(* C14: a successful TryTake neither removes the Entry nor cancels a       *)
(* timer; an Entry leaves the Map only when a timer for its key fires,     *)
(* and a firing timer removes the Entry of its key whether consumed is     *)
(* true or false.                                                          *)
C14_Step ==
    /\ \A i \in 1..Len(pending) :
          (GET(i) /\ reply'.status = 200) =>
              LET k == pending[i].threadId IN
              /\ messageStore'[k] = [messageStore[k] EXCEPT !.consumed = TRUE]
              /\ timers' = timers
    /\ \A k \in Keys :
          (IsEntry(messageStore[k]) /\ ~IsEntry(messageStore'[k]))
          => \E t \in timers : t.key = k /\ Evict(t)
    /\ \A t \in timers : Evict(t) => ~IsEntry(messageStore'[t.key])

C14_ConsumedStaysUntilEvicted == [][C14_Step]_vars

(* A timer has just removed an Entry that a TryTake had consumed.          *)
C14_Witness ==
    /\ reply.kind = "Evict" /\ reply.src # 0
    /\ deposits[reply.src].takes = 1
    /\ deposits[reply.src].fate = "evicted"
    /\ ~IsEntry(messageStore[reply.key])

(* C15: no operation cancels or postpones a pending timer: a timer set by  *)
(* a Deposit stays pending, with its due time, through every Deposit,      *)
(* TryTake and firing of another timer, and leaves only by firing, once,   *)
(* 30 units after that Deposit.                                            *)
C15_Due ==
    \A t \in timers :
        /\ t.id \in Deposited
        /\ t.key = deposits[t.id].key
        /\ t.due = deposits[t.id].at + EvictDelay
        /\ now <= t.due
        /\ \A u \in timers : u.id = t.id => u = t

C15_Step ==
    \A t \in timers :
        t \notin timers' => (Evict(t) /\ now = deposits[t.id].at + EvictDelay)

C15_TimersNeverCancelled == [] C15_Due /\ [][C15_Step]_vars

(* The timer of the first Deposit for a key has just fired, 30 units after *)
(* it, although a later Deposit for the key and a TryTake came in between. *)
C15_Witness ==
    \E k \in Keys :
        /\ reply.kind = "Evict" /\ reply.key = k /\ reply.timer = 1
        /\ now = deposits[1].at + EvictDelay
        /\ Cardinality(DepositsOn(k)) = 2
        /\ deposits[1].takes = 1
        /\ Cardinality(TimersOf(timers, k)) = 1

(* messageStore.size                                                       *)
Size(store) == Cardinality({k \in Keys : IsEntry(store[k])})

(* C16: the Map holds at most one Entry per key: as many Entries as there  *)
(* are keys whose last Deposit is still live, and a Deposit for a key that *)
(* holds an Entry replaces it (the size stays, the Entry is the new one),  *)
(* while a Deposit for a key that holds none adds one.                     *)
C16_OnePerKey ==
    /\ Size(messageStore) =
          Cardinality({d \in Deposited : deposits[d].fate = "live"})
    /\ \A k \in Keys :
          Cardinality({d \in DepositsOn(k) : deposits[d].fate = "live"}) <= 1

C16_Step ==
    \A i \in 1..Len(pending) :
        (POST(i) /\ WellFormed(pending[i])) =>
            LET r == pending[i] IN
            /\ messageStore'[r.threadId].message = r.message
            /\ messageStore'[r.threadId].timestamp = now
            /\ Size(messageStore') =
                  IF IsEntry(messageStore[r.threadId])
                  THEN Size(messageStore)
                  ELSE Size(messageStore) + 1

C16_AtMostOneEntry == [] C16_OnePerKey /\ [][C16_Step]_vars

(* Two Deposits for one key: the Map holds one Entry, the second one.      *)
C16_Witness ==
    \E k \in Keys :
        /\ Cardinality(DepositsOn(k)) = 2
        /\ Size(messageStore) = 1
        /\ IsEntry(messageStore[k])
        /\ reply.kind = "POST" /\ reply.status = 200 /\ reply.key = k
        /\ deposits[1].fate = "overwritten"
        /\ deposits[1].message # messageStore[k].message

(* C19: when a timer set by an earlier Deposit fires while its key holds   *)
(* the Entry of a later Deposit, it removes that Entry, and it does so     *)
(* before 30 units have passed since the later Deposit whenever the two    *)
(* Deposits were made at different times.                                  *)
C19_Step ==
    \A t \in timers :
        (Evict(t) /\ Held(t.key) /\ writer[t.key] # t.id) =>
            /\ deposits[t.id].at <= deposits[writer[t.key]].at
            /\ ~IsEntry(messageStore'[t.key])
            /\ deposits'[writer[t.key]].fate = "evicted"
            /\ deposits[t.id].at < deposits[writer[t.key]].at
               => now < deposits[writer[t.key]].at + EvictDelay

C19_OrphanEvictsEarly == [][C19_Step]_vars

(* The first Deposit's timer has just removed the second Deposit's         *)
(* unconsumed Entry, less than 30 units after the second Deposit.          *)
C19_Witness ==
    /\ reply.kind = "Evict"
    /\ reply.src # 0 /\ reply.timer # reply.src
    /\ reply.timer < reply.src
    /\ deposits[reply.src].fate = "evicted"
    /\ deposits[reply.src].takes = 0
    /\ now < deposits[reply.src].at + EvictDelay
    /\ now = deposits[reply.timer].at + EvictDelay
    /\ ~IsEntry(messageStore[reply.key])

(* C20: whenever the Map holds an Entry for key k, at least one timer for  *)
(* k is still pending, and it is due no later than 30 units after the      *)
(* Entry's timestamp.                                                      *)
C20_EntryHasTimer ==
    \A k \in Keys :
        IsEntry(messageStore[k]) =>
            \E t \in timers :
                /\ t.key = k
                /\ t.due <= messageStore[k].timestamp + EvictDelay

(* An Entry whose own timer is the only one left for its key, after the    *)
(* timer of an earlier Deposit for the key has fired.                      *)
C20_Witness ==
    \E k \in Keys :
        /\ IsEntry(messageStore[k])
        /\ Cardinality(TimersOf(timers, k)) = 1
        /\ \A t \in TimersOf(timers, k) : t.id = writer[k]
        /\ Cardinality(DepositsOn(k)) = 2
        /\ now > messageStore[k].timestamp

(* C17: a handler whose provider call failed (the fetch rejected, or the   *)
(* provider answered an error status) answers its caller with a failure,   *)
(* never with success.                                                     *)
C17_FailureSurfaces ==
    \A h \in Handlers :
        (proxy[h].pc = "done" /\ proxy[h].provider \in Failures)
        => proxy[h].status >= 400

(* C18: each handler issues at most one outbound request per inbound       *)
(* request, whether it succeeds or fails, and none when it answers before  *)
(* its fetch.                                                              *)
C18_NoRetry ==
    \A h \in Handlers :
        /\ proxy[h].calls <= 1
        /\ proxy[h].pc \in {"fetching", "reading"} => proxy[h].calls = 1
        /\ (proxy[h].pc = "done" /\ proxy[h].provider = NoProvider)
           => proxy[h].calls = 0
        /\ (proxy[h].pc = "done" /\ proxy[h].provider # NoProvider)
           => proxy[h].calls = 1

(* Every handler has answered 500 after its one fetch failed: for send    *)
(* and start the fetch was rejected, for speak and transcribe it resolved  *)
(* and the read of the response body was rejected.                         *)
C18_Witness ==
    /\ \A h \in Handlers :
          /\ proxy[h].pc = "done"
          /\ proxy[h].status = 500
          /\ proxy[h].calls = 1
    /\ \A h \in {"send", "start"} : proxy[h].provider = Network
    /\ \A h \in {"speak", "transcribe"} : proxy[h].provider.body = "broken"

(* ---- fairness ------------------------------------------------------- *)
(* The event loop runs every callback that is ready: a suspended handler   *)
(* resumes, a due timer fires, and time passes.  Nothing obliges a client  *)
(* to send a request.                                                      *)
Fairness ==
    /\ WF_vars(Tick)
    /\ WF_vars(\E t \in timers : Evict(t))
    /\ WF_vars(\E i \in 1..Len(pending) : POST(i))
    /\ WF_vars(\E i \in 1..Len(pending) : GET(i))

FairSpec == Spec /\ Fairness

(* No POST is in flight and none can arrive any more.                      *)
DepositsStopped ==
    /\ \A i \in 1..Len(pending) : pending[i].kind # "POST"
    /\ arrived = MaxRequests \/ now > MaxTime

Empty == Size(messageStore) = 0 /\ timers = {}

(* C21: once Deposits have stopped the Map becomes empty with no timer     *)
(* pending, and stays so; and at no time does the Map hold an Entry older  *)
(* than the eviction delay.                                                *)
C21_Drains ==
    /\ [](\A k \in Keys :
            IsEntry(messageStore[k])
            => now <= messageStore[k].timestamp + EvictDelay)
    /\ (DepositsStopped ~> Empty)
    /\ []((DepositsStopped /\ Empty) => [](DepositsStopped /\ Empty))

(* Deposits have stopped and every Entry deposited has been evicted or     *)
(* overwritten, one of them at the end of its own delay.                   *)
C21_Witness ==
    /\ DepositsStopped /\ Empty
    /\ Len(deposits) >= 2
    /\ \A d \in Deposited : deposits[d].fate # "live"
    /\ reply.kind = "Evict" /\ reply.src # 0
    /\ now = reply.timestamp + EvictDelay

(* C22: a POST whose threadId or message is missing or empty is answered   *)
(* 400 and changes nothing in the mailbox: the Map (Entries and their      *)
(* consumed flags) and the pending timers are as before.                   *)
C22_Step ==
    \A i \in 1..Len(pending) :
        (POST(i) /\ pending[i].threadId # Malformed
                 /\ ~WellFormed(pending[i]))
        => /\ reply'.kind = "POST" /\ reply'.status = 400
           /\ messageStore' = messageStore
           /\ timers' = timers
           /\ writer' = writer
           /\ Size(messageStore') = Size(messageStore)

C22_InvalidRejected == [][C22_Step]_vars

(* A body without a threadId was refused while the Map holds a consumed    *)
(* Entry whose timer is still pending.                                     *)
C22_Witness ==
    /\ reply.kind = "POST" /\ reply.status = 400 /\ reply.key = Falsy
    /\ \E k \in Keys :
          /\ IsEntry(messageStore[k]) /\ messageStore[k].consumed
          /\ TimersOf(timers, k) # {}

(* ---- the polling pages ------------------------------------------------ *)
Pages == {"chat", "generated"}

(* generateThreadId(): an id that no conversation had before; Threads is  *)
(* the ids in the order in which the page draws them.                      *)
Threads == <<"k1", "k2">>

(* the conversations that the page has started so far                      *)
Started(c) ==
    IF c.threadId = Falsy
    THEN 0
    ELSE CHOOSE n \in 1..Len(Threads) : Threads[n] = c.threadId

(* setInterval(..., 1000) in src/app/page.tsx:63, setInterval(..., 2000)   *)
(* in src/setup-voice-chat.sh:80, in units of 1000 ms                      *)
ChatPollInterval == 1
GeneratedPollInterval == 2

PollInterval(page) ==
    IF page = "chat" THEN ChatPollInterval ELSE GeneratedPollInterval

(* The interval callback closes over the isSpeaking of the render that set *)
(* the interval; the value travels with the request the callback sends.    *)
Stale == "isSpeaking"

Closure(isSpeaking) == IF isSpeaking THEN Stale ELSE Falsy

(* The requests of the page that have not been answered to it yet.         *)
InFlight == Len(pending) + Len(client.inbox)

(* useEffect(..., [threadId, isSpeaking]): when isSpeaking changes the     *)
(* effect clears the interval and sets a new one, which fires one period   *)
(* from now.                                                               *)
Effect(c, isSpeaking) ==
    [c EXCEPT !.isSpeaking = isSpeaking,
              !.nextPoll = IF isSpeaking # c.isSpeaking
                           THEN now + PollInterval(c.page) ELSE @]

(* startNewConversation, from the Start button and, once a conversation   *)
(* is open, from the New Chat button: setThreadId(generateThreadId()).     *)
(* The polling effect clears the interval of the thread before and sets    *)
(* one for the new thread; isSpeaking, the playbacks and the polls on      *)
(* their way stay as they are.  The clock starts with the first            *)
(* conversation.                                                           *)
StartConversation(page) ==
    /\ client.page \in {"none", page}
    /\ Started(client) < Len(Threads)
    /\ client' = [client EXCEPT !.page = page,
                                !.threadId = Threads[Started(client) + 1],
                                !.nextPoll = now + PollInterval(page)]
    /\ UNCHANGED <<mailbox, proxy, ui>>

(* The moments at which the bot may answer: at once, half-way through the *)
(* life of an Entry, and in the unit in which its timer falls due.         *)
PostTimes == {0, TickStep, EvictDelay}

(* the text of every reply; the Deposit that put it in the Map tells one  *)
(* reply from another                                                      *)
BotReply == "a"

(* The bot posts a reply for the thread of a conversation that the page    *)
(* has started.                                                            *)
BotPost ==
    /\ now \in PostTimes
    /\ arrived < MaxReplies
    /\ \E n \in 1..Started(client) : POSTArrive(Threads[n], BotReply)

(* The interval fires.  The chat page returns at once while isSpeaking;    *)
(* the generated page sends its request whatever isSpeaking is.            *)
PollFire ==
    /\ client.page # "none"
    /\ client.nextPoll <= now
    /\ InFlight < MaxPending
    /\ client' = [client EXCEPT !.nextPoll = now + PollInterval(client.page)]
    /\ IF client.page = "chat" /\ client.isSpeaking
       THEN UNCHANGED pending
       ELSE pending' = Append(pending,
                              Request("GET", client.threadId,
                                      Closure(client.isSpeaking), FALSE))
    /\ UNCHANGED <<now, messageStore, timers, arrived, writer, deposits,
                   reply, proxy, ui>>

(* The server runs the GET of the page and its answer sets out; src is 0   *)
(* for the 404 answer.                                                     *)
ClientGET(i) ==
    /\ TryTake(i)
    /\ client' = [client EXCEPT !.inbox =
                     Append(@, [src |-> reply'.src,
                                closure |-> pending[i].message = Stale])]
    /\ UNCHANGED <<proxy, ui>>

(* speakText(text): setIsSpeaking(true), then fetch, then audio.play()     *)
SpeakText(c, src) ==
    [Effect(c, TRUE) EXCEPT !.playing = @ \cup {src}]

(* The generated page tests the closed-over flag: data.message &&          *)
(* !isSpeaking; the chat page tests data.message alone.                    *)
Accepts(page, r) == r.src # 0 /\ (page = "chat" \/ ~r.closure)

(* The answer reaches the callback: response.ok, data.message,             *)
(* setMessages, speakText.                                                 *)
PollResponse(j) ==
    /\ j \in 1..Len(client.inbox)
    /\ LET r == client.inbox[j]
           rest == [n \in 1..(Len(client.inbox) - 1) |->
                       IF n < j THEN client.inbox[n] ELSE client.inbox[n + 1]]
           c == [client EXCEPT !.inbox = rest]
       IN
       client' = IF Accepts(client.page, r)
                 THEN SpeakText([c EXCEPT !.shown = @ \cup {r.src}], r.src)
                 ELSE IF r.src # 0
                 THEN [c EXCEPT !.dropped = @ \cup {r.src}]
                 ELSE c
    /\ UNCHANGED <<mailbox, proxy, ui>>

(* audio.onended, or the catch of speakText: setIsSpeaking(false)          *)
PlaybackEnds(src) ==
    /\ src \in client.playing
    /\ client' = [Effect(client, FALSE) EXCEPT !.playing = @ \ {src}]
    /\ UNCHANGED <<mailbox, proxy, ui>>

(* The clock moves to the next timer or interval that falls due.  The      *)
(* POST handler suspends only to read a body that has arrived, so it runs  *)
(* in the unit in which its request arrives; a GET of the page and its     *)
(* answer may be on their way for any time.                                *)
ClientTick ==
    /\ client.page # "none"
    /\ \A i \in 1..Len(pending) : pending[i].kind # "POST"
    /\ \A t \in timers : t.due > now
    /\ client.nextPoll > now
    /\ now < MaxTime \/ timers # {}
    /\ now' = Min({client.nextPoll} \cup {t.due : t \in timers})
    /\ UNCHANGED <<messageStore, timers, pending, arrived, writer, deposits,
                   reply, proxy, client, ui>>

ClientNext ==
    \/ \E page \in Pages : StartConversation(page)
    \/ BotPost
    \/ \E i \in 1..Len(pending) : POST(i)
    \/ PollFire
    \/ \E i \in 1..Len(pending) : ClientGET(i)
    \/ \E j \in 1..Len(client.inbox) : PollResponse(j)
    \/ \E src \in client.playing : PlaybackEnds(src)
    \/ \E t \in timers : Evict(t)
    \/ ClientTick

ClientSpec == Init /\ [][ClientNext]_vars

(* Every callback that is ready runs, and every playback ends.             *)
ClientFairness ==
    /\ WF_vars(ClientTick)
    /\ WF_vars(PollFire)
    /\ WF_vars(\E t \in timers : Evict(t))
    /\ WF_vars(\E i \in 1..Len(pending) : POST(i))
    /\ WF_vars(\E i \in 1..Len(pending) : ClientGET(i))
    /\ WF_vars(\E j \in 1..Len(client.inbox) : PollResponse(j))
    /\ WF_vars(\E src \in client.playing : PlaybackEnds(src))

FairClientSpec == ClientSpec /\ ClientFairness

(* C23: on the chat page the poll reaches every reply deposited for the    *)
(* thread of the conversation before its eviction: an Entry that a timer   *)
(* deleted had been taken by a GET of the page, whose answer is shown or   *)
(* on its way.                                                             *)
C23_ReachedBeforeEviction ==
    client.page = "chat" =>
        \A d \in Deposited :
            (deposits[d].key = client.threadId
             /\ deposits[d].fate = "evicted") =>
                \/ d \in client.shown
                \/ \E j \in 1..Len(client.inbox) : client.inbox[j].src = d

(* C24: the chat page never has two bot messages playing at once: no       *)
(* speakText starts while an earlier one has not ended.                    *)
C24_OneAtATime ==
    client.page = "chat" => Cardinality(client.playing) <= 1

(* C25: on the generated page every reply that a GET of the page took     *)
(* from the Map is appended to the message list once its answer has        *)
(* arrived; none is discarded.                                             *)
C25_ConsumedIsShown ==
    client.page = "generated" =>
        \A d \in Deposited :
            deposits[d].takes >= 1 =>
                \/ d \in client.shown
                \/ \E j \in 1..Len(client.inbox) : client.inbox[j].src = d

(* ---- the recorder of the chat page ------------------------------------ *)
(* A stopRecording that leaves the timer pending.                          *)
ClearTimeoutNot(ts, ref) == ts

(* clearTimeout(recordingTimeoutRef.current): of no effect on a timer that *)
(* has fired or was cleared before                                         *)
ClearTimeout(ts, ref) == ts \ {ref}

(* stopRecording(): src/app/page.tsx:176-186                               *)
StopRecording(r) ==
    LET cleared == IF r.timeoutRef # 0
                   THEN [r EXCEPT !.timers = ClearTimeout(@, r.timeoutRef)]
                   ELSE r
    IN IF r.state = "recording"
       THEN [cleared EXCEPT !.state = "inactive", !.isListening = FALSE]
       ELSE cleared

(* startRecording(): src/app/page.tsx:140-174; without a stream it         *)
(* returns at once.  The threadId is set whenever the button is shown.     *)
StartRecording(r) ==
    IF ~r.stream
    THEN r
    ELSE [r EXCEPT !.started = @ + 1,
                   !.state = "recording",
                   !.isListening = TRUE,
                   !.timeoutRef = r.started + 1,
                   !.timers = @ \cup {r.started + 1}]

(* startNewConversation is granted the microphone: page.tsx:80-82; until  *)
(* then startRecording returns at once.                                    *)
GetUserMedia ==
    /\ ~recorder.stream
    /\ recorder' = [recorder EXCEPT !.stream = TRUE]
    /\ UNCHANGED <<mailbox, proxy, client, agent>>

(* toggleRecording(): the click on the microphone button                   *)
ToggleRecording ==
    /\ recorder.isListening \/ recorder.started < MaxRecordings
    /\ recorder' = IF recorder.isListening
                   THEN StopRecording(recorder)
                   ELSE StartRecording(recorder)
    /\ recorder' # recorder
    /\ UNCHANGED <<mailbox, proxy, client, agent>>

(* The callback of the timer set by recording t: page.tsx:169-173          *)
AutoStop(t) ==
    /\ t \in recorder.timers
    /\ LET fired == [recorder EXCEPT !.timers = @ \ {t}] IN
       recorder' =
          IF recorder.state = "recording"
          THEN [StopRecording(fired) EXCEPT
                   !.lastAuto = [timer |-> t, stopped |-> recorder.started]]
          ELSE [fired EXCEPT !.lastAuto = [timer |-> t, stopped |-> 0]]
    /\ UNCHANGED <<mailbox, proxy, client, agent>>

(* The recorder stops by itself because its stream has ended; isListening  *)
(* is not told.                                                            *)
RecorderEnds ==
    /\ recorder.state = "recording"
    /\ recorder' = [recorder EXCEPT !.state = "inactive"]
    /\ UNCHANGED <<mailbox, proxy, client, agent>>

(* ---- the voice-agent page --------------------------------------------- *)
(* audioContextRef.current is running: set, and not closed by disconnect() *)
Running(a) == a.ctxRef # 0 /\ a.contexts[a.ctxRef] = "running"

(* playNextChunk(): src/app/page.tsx:1484-1496.  The source is created in  *)
(* the context that audioContextRef.current names; in a closed context it  *)
(* makes no sound and never ends.                                          *)
PlayNextChunk(a) ==
    IF Len(a.audioQueue) = 0 \/ a.ctxRef = 0
    THEN a
    ELSE [a EXCEPT !.playing =
                      IF Running(a)
                      THEN @ \cup {[chunk |-> Head(a.audioQueue),
                                    context |-> a.ctxRef]}
                      ELSE @,
                   !.audioQueue = Tail(@)]

(* playAudio(audioData): src/app/page.tsx:1474-1482                        *)
PlayAudio(a, chunk) ==
    IF a.ctxRef = 0
    THEN a
    ELSE LET pushed == [a EXCEPT !.audioQueue = Append(@, chunk)] IN
         IF Len(pushed.audioQueue) = 1 THEN PlayNextChunk(pushed) ELSE pushed

(* The click on Connect, on the configuration screen: connect() runs up to *)
(* await getUserMedia, with the apiKey that the field holds at this        *)
(* moment.  Nothing in it tests for a socket that exists.                  *)
ConnectClick ==
    /\ agent.showConfig
    /\ Len(agent.contexts) + Len(agent.waiting) < MaxSockets
    /\ \E token \in BOOLEAN :
          agent' = [agent EXCEPT !.waiting =
                       Append(@, [heard |-> agent.isListening,
                                  token |-> token])]
    /\ UNCHANGED <<mailbox, proxy, client, recorder>>

(* connect() up to new WebSocket, after the microphone is granted: the     *)
(* stream, a new AudioContext and a processor, which the refs now name.    *)
Granted(a) ==
    [a EXCEPT !.waiting = Tail(@),
              !.contexts = Append(@, "running"),
              !.ctxRef = Len(a.contexts) + 1]

(* The microphone is granted and connect() goes on to its end: a new       *)
(* WebSocket that wsRef now names, and the onaudioprocess handler, which   *)
(* closes over this call's isListening.                                    *)
Connect ==
    /\ Len(agent.waiting) > 0
    /\ Head(agent.waiting).token
    /\ agent' = [Granted(agent) EXCEPT
                    !.sockets = Append(@, [ws |-> "connecting",
                                           context |-> Len(agent.contexts) + 1,
                                           heard |-> Head(agent.waiting).heard]),
                    !.wsRef = Len(agent.sockets) + 1]
    /\ UNCHANGED <<mailbox, proxy, client, recorder>>

(* The microphone is granted and new WebSocket throws, the apiKey being no *)
(* subprotocol token: the catch of connect() alerts.  The refs name the    *)
(* new stream and context; wsRef keeps the socket it named, and the new    *)
(* processor has no handler.                                               *)
ConnectThrows ==
    /\ Len(agent.waiting) > 0
    /\ ~Head(agent.waiting).token
    /\ agent' = Granted(agent)
    /\ UNCHANGED <<mailbox, proxy, client, recorder>>

(* The microphone is refused: the catch of connect() alerts.               *)
MicDenied ==
    /\ Len(agent.waiting) > 0
    /\ agent' = [agent EXCEPT !.waiting = Tail(@)]
    /\ UNCHANGED <<mailbox, proxy, client, recorder>>

(* ws.onopen of socket s                                                   *)
WsOpen(s) ==
    /\ agent.sockets[s].ws = "connecting"
    /\ agent' = [agent EXCEPT !.sockets[s].ws = "open",
                              !.isConnected = TRUE,
                              !.showConfig = FALSE]
    /\ UNCHANGED <<mailbox, proxy, client, recorder>>

(* ws.onclose of socket s: the server or the network closes it, or the     *)
(* close that disconnect() asked for completes                             *)
WsClose(s) ==
    /\ agent.sockets[s].ws \in {"connecting", "open", "closing"}
    /\ agent' = [agent EXCEPT !.sockets[s].ws = "closed",
                              !.isConnected = FALSE,
                              !.isListening = FALSE]
    /\ UNCHANGED <<mailbox, proxy, client, recorder>>

(* disconnect(), from the button shown while isConnected: it closes the    *)
(* socket and the context that the refs name, and no other; the socket's   *)
(* onclose runs later, and close() on a socket that has closed does        *)
(* nothing.  The queue is a ref and stays.                                 *)
Disconnect ==
    /\ agent.isConnected
    /\ agent' = [agent EXCEPT
                    !.sockets = [s \in 1..Len(agent.sockets) |->
                                    IF s = agent.wsRef
                                    THEN [@[s] EXCEPT
                                             !.ws = IF @ = "closed"
                                                    THEN "closed"
                                                    ELSE "closing"]
                                    ELSE @[s]],
                    !.contexts = [c \in 1..Len(agent.contexts) |->
                                     IF c = agent.ctxRef
                                     THEN "closed"
                                     ELSE @[c]],
                    !.playing = {c \in @ : c.context # agent.ctxRef},
                    !.isConnected = FALSE,
                    !.isListening = FALSE,
                    !.showConfig = TRUE]
    /\ UNCHANGED <<mailbox, proxy, client, recorder>>

(* startListening(): src/app/page.tsx:1498-1503, from the microphone       *)
(* button, shown while isConnected                                         *)
StartListening ==
    /\ agent.isConnected
    /\ ~agent.isListening
    /\ agent.wsRef # 0
    /\ agent.sockets[agent.wsRef].ws = "open"
    /\ agent' = [agent EXCEPT !.isListening = TRUE]
    /\ UNCHANGED <<mailbox, proxy, client, recorder>>

(* stopListening(): src/app/page.tsx:1505-1508                             *)
StopListening ==
    /\ agent.isConnected
    /\ agent.isListening
    /\ agent' = [agent EXCEPT !.isListening = FALSE]
    /\ UNCHANGED <<mailbox, proxy, client, recorder>>

(* ws.readyState === WebSocket.OPEN && isListening, as the handler of      *)
(* socket record k sees them                                               *)
Sends(k) == k.ws = "open" /\ k.heard

(* onaudioprocess of the processor made with socket s: the microphone      *)
(* delivers a buffer                                                       *)
AudioProcess(s) ==
    /\ agent.contexts[agent.sockets[s].context] = "running"
    /\ agent' = [agent EXCEPT !.buffer =
                    [captured |-> TRUE,
                     open |-> agent.sockets[s].ws = "open",
                     listening |-> agent.isListening,
                     sent |-> Sends(agent.sockets[s])]]
    /\ UNCHANGED <<mailbox, proxy, client, recorder>>

(* ws.onmessage of socket s with data.type === 'AudioData':                *)
(* page.tsx:1410-1425                                                      *)
AudioData(s) ==
    /\ agent.sockets[s].ws = "open"
    /\ agent.chunks < MaxChunks
    /\ agent' = [PlayAudio(agent, agent.chunks + 1) EXCEPT !.chunks = @ + 1]
    /\ UNCHANGED <<mailbox, proxy, client, recorder>>

(* source.onended = () => playNextChunk()                                  *)
OnEnded(c) ==
    /\ c \in agent.playing
    /\ agent' = PlayNextChunk([agent EXCEPT !.playing = @ \ {c}])
    /\ UNCHANGED <<mailbox, proxy, client, recorder>>

PageNext ==
    \/ GetUserMedia
    \/ ToggleRecording
    \/ \E t \in recorder.timers : AutoStop(t)
    \/ RecorderEnds
    \/ ConnectClick
    \/ Connect
    \/ ConnectThrows
    \/ MicDenied
    \/ \E s \in 1..Len(agent.sockets) : WsOpen(s)
    \/ \E s \in 1..Len(agent.sockets) : WsClose(s)
    \/ Disconnect
    \/ StartListening
    \/ StopListening
    \/ \E s \in 1..Len(agent.sockets) : AudioProcess(s)
    \/ \E s \in 1..Len(agent.sockets) : AudioData(s)
    \/ \E c \in agent.playing : OnEnded(c)

PageSpec == Init /\ [][PageNext]_vars

(* C26: the voice-agent page plays one chunk at a time: no source starts   *)
(* while a source started before it has not ended.                         *)
C26_OneChunkAtATime == Cardinality(agent.playing) <= 1

(* C27: at most one auto-stop timer is pending, and it is the timer of the *)
(* latest recording; the callback of a timer stops no recording but the    *)
(* one that set it.                                                        *)
C27_TimerOfThisRecording ==
    /\ Cardinality(recorder.timers) <= 1
    /\ \A t \in recorder.timers : t = recorder.started
    /\ recorder.lastAuto.stopped \in {0, recorder.lastAuto.timer}

(* The second recording is in progress with its own timer pending; the     *)
(* first was stopped by hand, no timer having fired so far.                *)
C27_Witness ==
    /\ recorder.started = 2
    /\ recorder.state = "recording"
    /\ recorder.timers = {2}
    /\ recorder.lastAuto.timer = 0

(* C28: a microphone buffer captured while the websocket is open is sent   *)
(* if and only if the page is listening.                                   *)
C28_SentIffListening ==
    (agent.buffer.captured /\ agent.buffer.open)
    => (agent.buffer.sent <=> agent.buffer.listening)

====
